---- MODULE Spec2Model ----
(***************************************************************************)
(* State machine of EQRMTrainer.train (tensor2struct/commands/             *)
(* eqrm_train.py): the training loop, one training step, the checkpoint    *)
(* store it drives and the out-of-memory recovery block.                   *)
(*                                                                         *)
(* Every action is one statement (or one group of adjacent statements) of  *)
(* train / step / load_optimizer; pc is the statement about to execute.    *)
(* The collaborators whose code is not part of eqrm_train.py (the risk     *)
(* engine eqrm.EQRM, the checkpoint Saver and Trainer.load_saver /         *)
(* save_state / eval_model / load_model) are modelled from their contract. *)
(***************************************************************************)
EXTENDS Integers, Sequences, FiniteSets, TLC

VARIABLES
    cfg,            \* self.train_config and the model's parameter partition
    pc,             \* statement of train/step about to execute
    outcome,        \* "running", "returned" or "raised" (an error left train)
    last_step,      \* train's local last_step (NoStep before load_saver)
    start_step,     \* the step load_saver returned at startup
    model,          \* self.model: weights (number of updates applied) and place
    opts,           \* heap of optimizer objects: accumulated state and place
    optimizer,      \* train's local optimizer (index in opts, None if deleted)
    lr_scheduler,   \* train's local lr_scheduler: the optimizer it is built over
    eqrm_trainer,   \* train's local eqrm_trainer: the risk engine's state
    saver,          \* train's local saver: what it was built over
    dir,            \* the checkpoint directory: a set of files
    stepOpt,        \* step's local optimizer
    stepSched,      \* step's local lr_scheduler
    reset_opt,      \* step's local reset_opt
    new_lr,         \* step's local new_lr
    batches,        \* batches consumed from train_data_loader
    oom,            \* train's local oom
    err,            \* the last error raised: kind and the statement raising it
    nfaults,        \* errors raised so far
    warnings,       \* "Forward Failed" warnings logged
    updLog,         \* history: for each optimizer.step, the step index and optimizer
    saveLog,        \* history: the step of every save_state call that wrote
    evalLog,        \* history: the step of every eval_model call
    clipLog,        \* history: for each clip_grad_norm_ pass, the step and optimizer
    nResets,        \* history: eqrm_trainer.train calls that returned reset true
    everRobust,     \* history: the risk engine has been in ROBUST
    preReset,       \* history: optimizers that were active when a reset rebuilt
    iter_step,      \* history: last_step when the current loop iteration began
    stepsDone,      \* history: calls of step that returned
    lastOp,         \* history: the last statement executed
    trace,          \* history: the statements executed since the last loop test
    fetchLog        \* history: for each batch fetched, the step index and the batch

vars == <<cfg, pc, outcome, last_step, start_step, model, opts, optimizer,
          lr_scheduler, eqrm_trainer, saver, dir, stepOpt, stepSched,
          reset_opt, new_lr, batches, oom, err, nfaults, warnings, updLog,
          saveLog, evalLog, clipLog, nResets, everRobust, preReset, iter_step,
          stepsDone, lastOp, trace, fetchLog>>

----------------------------------------------------------------------------
(* Bounds of the model *)

\* largest max_steps enumerated
MaxSteps == 3
\* largest burnin_iters enumerated
MaxBurnin == 1
\* largest number of errors raised in one run
MaxFaults == 2

(* Program constants *)

\* tmp_step = int(1e8)
Sentinel == 100000000

\* no value bound yet / deleted name
None == 0
NoStep == 0 - 1

----------------------------------------------------------------------------
(* The risk engine eqrm.EQRM (tensor2struct/training/eqrm.py) *)

\* EQRM(device, quantile, burnin_iters): a new engine, in burn-in, counter 0
FreshEngine == [counter |-> 0, phase |-> "BURNIN"]

\* what a checkpoint holds in place of the engine when the saver has none
NoEngine == [counter |-> NoStep, phase |-> "NONE"]

\* EQRM.train(model, batch, step): advances the counter; the call on which the
\* counter first exceeds burnin_iters moves BURNIN -> ROBUST and returns reset
EqrmTrain(e, burnin) ==
    LET c == e.counter + 1
        trans == e.phase = "BURNIN" /\ c > burnin
    IN  [engine |-> [counter |-> c,
                     phase |-> IF trans THEN "ROBUST" ELSE e.phase],
         reset |-> trans]

----------------------------------------------------------------------------
(* The checkpoint store (tensor2struct/utils/saver.py, Trainer.load_saver) *)

\* the file of the directory with the highest step
Latest(d) == CHOOSE f \in d : \A g \in d : g.step <= f.step

\* the file saver.save writes: step, model weights, the state of the saver's
\* optimizer and, when the saver was built over one, the risk engine's state
CkptOf(sv, step) ==
    [step |-> step,
     model |-> model.upd,
     opt |-> opts[sv.opt].upd,
     eqrm |-> IF sv.eqrm THEN eqrm_trainer ELSE NoEngine]

\* saver.save(modeldir, step): one file per step value, rewritten in place
SaverSave(d, sv, step) == {f \in d : f.step # step} \cup {CkptOf(sv, step)}

\* the name of the checkpoint file of a step
CkptName(step) == step

\* os.unlink(path): removes the file of that name
Unlink(d, name) == {f \in d : CkptName(f.step) # name}

\* the engine after a restore: the checkpoint's, when the saver holds an
\* engine and the checkpoint has one
RestoredEngine(sv, f, e) == IF sv.eqrm /\ f.eqrm # NoEngine THEN f.eqrm ELSE e

----------------------------------------------------------------------------
(* Configurations and starting directories *)

\* get_bert_parameters / get_non_bert_parameters / parameters of the model
Partitions ==
    { [n_bert |-> 1, n_non_bert |-> 1, n_all |-> 2],     \* a partition
      [n_bert |-> 0, n_non_bert |-> 2, n_all |-> 2],     \* no encoder parameter
      [n_bert |-> 1, n_non_bert |-> 2, n_all |-> 2] }    \* overlapping subsets

\* config.get("lr_scheduler", {"name": "noop"}): the no-op scheduler when the
\* configuration has none, a scheduler that sets the rates otherwise
SchedulerKinds == {"noop", "warmup"}

Configs ==
    { [max_steps |-> m, burnin_iters |-> b, use_bert_training |-> u,
       clip_grad |-> g, params |-> p, lr_scheduler |-> l] :
         m \in 0..MaxSteps, b \in 0..MaxBurnin, u \in BOOLEAN, g \in BOOLEAN,
         p \in Partitions, l \in SchedulerKinds }

\* the checkpoint a run without error leaves at step k: k updates of the
\* model, the engine called k times, and train's optimizer stepped on every
\* call but the one that returned reset
CleanCkpt(k, burnin) ==
    [step |-> k,
     model |-> k,
     opt |-> IF k > burnin THEN k - 1 ELSE k,
     eqrm |-> [counter |-> k,
               phase |-> IF k > burnin THEN "ROBUST" ELSE "BURNIN"]]

\* the directory train starts on: empty, or the checkpoint of an earlier run
StartDirs(c) ==
    {{}} \cup {{CleanCkpt(k, c.burnin_iters)} : k \in 1..(MaxSteps + 1)}

\* single-optimizer mode does not look at the encoder subset: one model with
\* encoder parameters and one without stand for it
StartConfigs ==
    {c \in Configs :
        c.use_bert_training \/ c.params.n_bert + c.params.n_non_bert = c.params.n_all}

Init ==
    /\ cfg \in StartConfigs
    /\ dir \in StartDirs(cfg)
    /\ pc = "load_optimizer"
    /\ outcome = "running"
    /\ last_step = NoStep
    /\ start_step = NoStep
    /\ model = [upd |-> 0, loc |-> "device"]
    /\ opts = <<>>
    /\ optimizer = None
    /\ lr_scheduler = None
    /\ eqrm_trainer = NoEngine
    /\ saver = [opt |-> None, eqrm |-> FALSE]
    /\ stepOpt = None
    /\ stepSched = None
    /\ reset_opt = FALSE
    /\ new_lr = <<>>
    /\ batches = 0
    /\ oom = FALSE
    /\ err = [kind |-> "none", at |-> "none"]
    /\ nfaults = 0
    /\ warnings = 0
    /\ updLog = <<>>
    /\ saveLog = <<>>
    /\ evalLog = <<>>
    /\ clipLog = <<>>
    /\ nResets = 0
    /\ everRobust = FALSE
    /\ preReset = {}
    /\ iter_step = NoStep
    /\ stepsDone = 0
    /\ lastOp = "init"
    /\ trace = <<>>
    /\ fetchLog = <<>>

----------------------------------------------------------------------------
(* Groups of variables an action leaves alone *)

hist == <<updLog, saveLog, evalLog, clipLog, nResets, everRobust, preReset>>
errs == <<err, nfaults, warnings>>
locals == <<stepOpt, stepSched, reset_opt, new_lr>>
objs == <<model, opts, optimizer, lr_scheduler, eqrm_trainer, saver>>
ctl == <<cfg, outcome, last_step, start_step, oom, batches>>
aux == <<iter_step, stepsDone>>
fetched == <<fetchLog>>

----------------------------------------------------------------------------
(* load_optimizer *)

\* faulty variant: the assertions of load_optimizer are left out
PartitionUnchecked(c) == TRUE

\* the two assertions of load_optimizer in dual-optimizer mode
PartitionOK(c) ==
    c.use_bert_training =>
        /\ c.params.n_bert + c.params.n_non_bert = c.params.n_all
        /\ c.params.n_bert > 0

\* registry.construct("optimizer", ...): no accumulated state, on the device,
\* two parameter groups in dual-optimizer mode and one otherwise; site is the
\* place of the construction, "step" for the one of lines 94-115
FreshOptimizer(c) ==
    [upd |-> 0, loc |-> "device",
     groups |-> IF c.use_bert_training THEN 2 ELSE 1,
     site |-> "step"]

\* the construction of lines 39-59, in load_optimizer after its assertions
LoadedOptimizer(c) == [FreshOptimizer(c) EXCEPT !.site = "load_optimizer"]

\* the statements of train and step, in program order
StartupPcs == {"load_optimizer", "load_saver", "load_data"}
TryPcs == {"eval_model", "step_fetch", "step_eqrm", "step_clip", "step_reset",
           "step_backward", "step_optimizer_step", "step_update_lr",
           "step_report", "incr", "save_state"}
RecoveryPcs == {"oom_save", "oom_model_cpu", "oom_del_model", "oom_opt_cpu",
                "oom_del_opt", "oom_gc", "oom_load_model",
                "oom_load_optimizer", "oom_load_saver", "oom_unlink"}

\* an error leaves train: nothing runs after it
Raise(kind) ==
    /\ outcome' = "raised"
    /\ err' = [kind |-> kind, at |-> pc]
    /\ nfaults' = nfaults + 1
    /\ UNCHANGED <<fetched, aux, cfg, pc, last_step, start_step, oom, batches, objs, dir,
                   locals, warnings, hist, lastOp, trace>>

\* line 141: optimizer, lr_scheduler, eqrm_trainer = self.load_optimizer(config)
LoadOptimizer ==
    /\ outcome = "running" /\ pc = "load_optimizer"
    /\ IF PartitionOK(cfg)
       THEN /\ opts' = Append(opts, LoadedOptimizer(cfg))
            /\ optimizer' = Len(opts) + 1
            /\ lr_scheduler' = Len(opts) + 1
            /\ eqrm_trainer' = FreshEngine
            /\ pc' = "load_saver"
            /\ lastOp' = "load_optimizer"
            /\ trace' = Append(trace, "load_optimizer")
            /\ UNCHANGED <<fetched, aux, ctl, model, saver, dir, locals, errs, hist>>
       ELSE Raise("AssertionError")

\* the step load_saver returns: that of the restored checkpoint, 0 without one
RestoredStep(d) == IF d = {} THEN 0 ELSE Latest(d).step

\* the model after saver.restore: the weights of the latest checkpoint
RestoredModel(d, m) ==
    IF d = {} THEN m ELSE [m EXCEPT !.upd = Latest(d).model]

\* the optimizers after saver.restore: the saver's one gets the saved state
RestoredOpts(d, o, id) ==
    IF d = {} THEN o ELSE [o EXCEPT ![id].upd = Latest(d).opt]

\* faulty variant: the restored step is dropped at startup, as line 174 drops it
StartStepDropped(restored) == 0

\* line 142: saver, last_step = ...: train starts at the restored step
StartStep(restored) == restored

\* line 142: saver, last_step = self.load_saver(config, modeldir,
\*                               optimizer=optimizer, eqrm_trainer=eqrm_trainer)
LoadSaver ==
    /\ outcome = "running" /\ pc = "load_saver"
    /\ saver' = [opt |-> optimizer, eqrm |-> TRUE]
    /\ model' = RestoredModel(dir, model)
    /\ opts' = RestoredOpts(dir, opts, optimizer)
    /\ eqrm_trainer' = IF dir = {} THEN eqrm_trainer
                       ELSE RestoredEngine(saver', Latest(dir), eqrm_trainer)
    /\ everRobust' = (eqrm_trainer'.phase = "ROBUST")
    /\ last_step' = StartStep(RestoredStep(dir))
    /\ start_step' = StartStep(RestoredStep(dir))
    /\ pc' = "load_data"
    /\ lastOp' = "load_saver"
    /\ trace' = Append(trace, "load_saver")
    /\ UNCHANGED <<fetched, aux, cfg, outcome, oom, batches, optimizer, lr_scheduler, dir,
                   locals, errs, updLog, saveLog, evalLog, clipLog, nResets,
                   preReset>>

\* lines 144-145: the data loaders are built once, before the loop
LoadData ==
    /\ outcome = "running" /\ pc = "load_data"
    /\ batches' = 0
    /\ pc' = "loop_test"
    /\ lastOp' = "load_data"
    /\ trace' = Append(trace, "load_data")
    /\ UNCHANGED <<fetched, aux, cfg, outcome, last_step, start_step, oom, objs, dir,
                   locals, errs, hist>>

----------------------------------------------------------------------------
(* The loop of train and one training step *)

\* faulty variant: the loop runs once more, with last_step = max_steps
LoopGuardInclusive(s, c) == s <= c.max_steps

\* line 148: while last_step < self.train_config.max_steps
LoopGuard(s, c) == s < c.max_steps

\* lines 148-149: the loop test; oom = False on entering the body
LoopTest ==
    /\ outcome = "running" /\ pc = "loop_test"
    /\ IF LoopGuard(last_step, cfg)
       THEN oom' = FALSE /\ iter_step' = last_step /\ pc' = "eval_model"
       ELSE oom' = oom /\ iter_step' = iter_step /\ pc' = "final_save"
    /\ lastOp' = "loop_test"
    /\ trace' = <<"loop_test">>
    /\ UNCHANGED <<fetched, stepsDone, cfg, outcome, last_step, start_step, batches,
                   objs, dir, locals, errs, hist>>

\* line 151: self.eval_model(last_step, ...) changes no training state
EvalModel ==
    /\ outcome = "running" /\ pc = "eval_model"
    /\ evalLog' = Append(evalLog, last_step)
    /\ pc' = "step_fetch"
    /\ lastOp' = "eval_model"
    /\ trace' = Append(trace, "eval_model")
    /\ UNCHANGED <<fetched, aux, ctl, objs, dir, locals, errs, updLog, saveLog, clipLog,
                   nResets, everRobust, preReset>>

\* faulty variant: the iterator yields the batch it yielded last
NextBatchReplayed(b) == IF b = 0 THEN 1 ELSE b

\* line 81: next(train_data_loader) yields the batch after the last one
NextBatch(b) == b + 1

\* lines 76-81: step is entered with train's optimizer and lr_scheduler as
\* its parameters; batch = next(train_data_loader)
StepFetch ==
    /\ outcome = "running" /\ pc = "step_fetch"
    /\ stepOpt' = optimizer
    /\ stepSched' = lr_scheduler
    /\ batches' = NextBatch(batches)
    /\ fetchLog' = Append(fetchLog, [step |-> last_step, batch |-> NextBatch(batches)])
    /\ pc' = "step_eqrm"
    /\ lastOp' = "step_fetch"
    /\ trace' = Append(trace, "step_fetch")
    /\ UNCHANGED <<aux, cfg, outcome, last_step, start_step, oom, objs, dir,
                   reset_opt, new_lr, errs, hist>>

\* line 82: ret_dic, reset_opt = eqrm_trainer.train(self.model, batch, last_step)
StepEqrm ==
    /\ outcome = "running" /\ pc = "step_eqrm"
    /\ LET r == EqrmTrain(eqrm_trainer, cfg.burnin_iters)
       IN  /\ eqrm_trainer' = r.engine
           /\ reset_opt' = r.reset
           /\ nResets' = IF r.reset THEN nResets + 1 ELSE nResets
           /\ everRobust' = (everRobust \/ r.engine.phase = "ROBUST")
    /\ pc' = "step_clip"
    /\ lastOp' = "step_eqrm"
    /\ trace' = Append(trace, "step_eqrm")
    /\ UNCHANGED <<fetched, aux, ctl, model, opts, optimizer, lr_scheduler, saver, dir,
                   stepOpt, stepSched, new_lr, errs, updLog, saveLog, evalLog,
                   clipLog, preReset>>

\* line 85: if self.train_config.clip_grad and self.train_config.use_bert_training
\* faulty variant: clipping whenever a threshold is configured
ClipAppliesAnyMode(c) == c.clip_grad

ClipApplies(c) == c.clip_grad /\ c.use_bert_training

\* lines 85-89: clip_grad_norm_ over every param group of step's optimizer
StepClip ==
    /\ outcome = "running" /\ pc = "step_clip"
    /\ clipLog' = IF ClipApplies(cfg)
                  THEN Append(clipLog, [step |-> last_step, opt |-> stepOpt,
                                        groups |-> opts[stepOpt].groups])
                  ELSE clipLog
    /\ pc' = "step_reset"
    /\ lastOp' = "step_clip"
    /\ trace' = Append(trace, "step_clip")
    /\ UNCHANGED <<fetched, aux, ctl, objs, dir, locals, errs, updLog, saveLog, evalLog,
                   nResets, everRobust, preReset>>

\* lines 92-121: on reset_opt, step rebinds its own optimizer and
\* lr_scheduler to a freshly constructed pair (no partition assertion here)
StepReset ==
    /\ outcome = "running" /\ pc = "step_reset"
    /\ IF reset_opt
       THEN /\ opts' = Append(opts, FreshOptimizer(cfg))
            /\ stepOpt' = Len(opts) + 1
            /\ stepSched' = Len(opts) + 1
            /\ preReset' = preReset \cup {stepOpt}
       ELSE UNCHANGED <<opts, stepOpt, stepSched, preReset>>
    /\ pc' = "step_backward"
    /\ lastOp' = "step_reset"
    /\ trace' = Append(trace, "step_reset")
    /\ UNCHANGED <<fetched, aux, ctl, model, optimizer, lr_scheduler, eqrm_trainer, saver,
                   dir, reset_opt, new_lr, errs, updLog, saveLog, evalLog,
                   clipLog, nResets, everRobust>>

\* faulty variant: optimizer.step() is left out
StepBackwardNoUpdate ==
    /\ outcome = "running" /\ pc = "step_backward"
    /\ pc' = "step_update_lr"
    /\ lastOp' = "step_backward"
    /\ trace' = Append(trace, "step_backward")
    /\ UNCHANGED <<fetched, aux, ctl, objs, dir, locals, errs, hist>>

\* lines 124-125: optimizer.zero_grad(); ret_dic["loss"].backward()
StepBackward ==
    /\ outcome = "running" /\ pc = "step_backward"
    /\ pc' = "step_optimizer_step"
    /\ lastOp' = "step_backward"
    /\ trace' = Append(trace, "step_backward")
    /\ UNCHANGED <<fetched, aux, ctl, objs, dir, locals, errs, hist>>

\* line 126: optimizer.step() updates the model through step's optimizer
StepOptimizerStep ==
    /\ outcome = "running" /\ pc = "step_optimizer_step"
    /\ opts' = [opts EXCEPT ![stepOpt].upd = @ + 1]
    /\ model' = [model EXCEPT !.upd = @ + 1]
    /\ updLog' = Append(updLog, [step |-> last_step, opt |-> stepOpt])
    /\ pc' = "step_update_lr"
    /\ lastOp' = "step_optimizer_step"
    /\ trace' = Append(trace, "step_optimizer_step")
    /\ UNCHANGED <<fetched, aux, ctl, optimizer, lr_scheduler, eqrm_trainer, saver, dir,
                   locals, errs, saveLog, evalLog, clipLog, nResets,
                   everRobust, preReset>>

\* update_lr(step) of a scheduler: the no-op scheduler returns None at every
\* step, another scheduler the rates it has set for the groups it is built
\* over
UpdateLr(kind, sched, step) ==
    IF kind = "noop" THEN <<>>
    ELSE [i \in 1..opts[sched].groups |->
             [sched |-> sched, step |-> step, group |-> i]]

\* [param["lr"] for param in o.param_groups]
RatesOf(o) == [i \in 1..opts[o].groups |-> [opt |-> o, group |-> i]]

\* faulty variant: the rates are read from the optimizer train holds
ReadRatesOfTrain == RatesOf(optimizer)

\* line 130: the rates are read from step's own optimizer
ReadRates == RatesOf(stepOpt)

\* lines 127-130: new_lr = lr_scheduler.update_lr(last_step); on None the
\* rates are read from the param groups of step's optimizer
StepUpdateLr ==
    /\ outcome = "running" /\ pc = "step_update_lr"
    /\ LET ret == UpdateLr(cfg.lr_scheduler, stepSched, last_step)
       IN  new_lr' = IF ret = <<>> THEN ReadRates ELSE ret
    /\ pc' = "step_report"
    /\ lastOp' = "step_update_lr"
    /\ trace' = Append(trace, "step_update_lr")
    /\ UNCHANGED <<fetched, aux, ctl, objs, dir, stepOpt, stepSched, reset_opt,
                   errs, hist>>

\* what train's optimizer is once step has returned: step returns nothing,
\* so train keeps the optimizer it passed in
OptimizerAfterStep(mine, steps) == mine

\* lines 132-137: reporting; step returns and its locals are gone
StepReport ==
    /\ outcome = "running" /\ pc = "step_report"
    /\ optimizer' = OptimizerAfterStep(optimizer, stepOpt)
    /\ lr_scheduler' = OptimizerAfterStep(lr_scheduler, stepSched)
    /\ stepOpt' = None
    /\ stepSched' = None
    /\ reset_opt' = FALSE
    /\ new_lr' = <<>>
    /\ stepsDone' = stepsDone + 1
    /\ pc' = "incr"
    /\ lastOp' = "step_report"
    /\ trace' = Append(trace, "step_report")
    /\ UNCHANGED <<fetched, iter_step, ctl, model, opts, eqrm_trainer, saver, dir, errs, hist>>

\* faulty variant: the counter skips a step value
AfterStepSkips(s) == s + 2

\* line 153: last_step = last_step + 1
AfterStep(s) == s + 1

Incr ==
    /\ outcome = "running" /\ pc = "incr"
    /\ last_step' = AfterStep(last_step)
    /\ pc' = "save_state"
    /\ lastOp' = "incr"
    /\ trace' = Append(trace, "incr")
    /\ UNCHANGED <<fetched, aux, cfg, outcome, start_step, oom, batches, objs, dir, locals,
                   errs, hist>>

\* line 154: self.save_state(saver, modeldir, last_step) persists a
\* checkpoint at the new step; the try block ends and oom is still False
SaveState ==
    /\ outcome = "running" /\ pc = "save_state"
    /\ dir' = SaverSave(dir, saver, last_step)
    /\ saveLog' = Append(saveLog, last_step)
    /\ pc' = "loop_test"
    /\ lastOp' = "save_state"
    /\ trace' = Append(trace, "save_state")
    /\ UNCHANGED <<fetched, aux, ctl, objs, locals, errs, updLog, evalLog, clipLog, nResets,
                   everRobust, preReset>>

\* line 179: saver.save(modeldir, last_step), then train returns
FinalSave ==
    /\ outcome = "running" /\ pc = "final_save"
    /\ dir' = SaverSave(dir, saver, last_step)
    /\ outcome' = "returned"
    /\ pc' = "done"
    /\ lastOp' = "final_save"
    /\ trace' = Append(trace, "final_save")
    /\ UNCHANGED <<fetched, aux, cfg, last_step, start_step, oom, batches, objs, locals,
                   errs, hist>>

----------------------------------------------------------------------------
(* Errors *)

ErrorKinds == {"RuntimeError", "OtherError"}

\* the statements at which the model lets an error of a kind be raised:
\* a RuntimeError (out of memory, failed write) in the evaluation, the forward
\* and backward passes, after the optimizer update, in the checkpoint writes
\* and the reloads; another error (StopIteration, OSError, ...) in the
\* evaluation, the batch fetch and the unlink
RaisingPcs(kind) ==
    IF kind = "RuntimeError"
    THEN {"eval_model", "step_eqrm", "step_backward", "step_update_lr",
          "save_state", "oom_save", "oom_load_model", "oom_load_saver"}
    ELSE {"eval_model", "step_fetch", "oom_unlink"}

\* faulty variant: a bare except, catching every kind of error
CaughtAny(kind, at) == at \in TryPcs

\* lines 150-155: try: ... except RuntimeError
Caught(kind, at) == kind = "RuntimeError" /\ at \in TryPcs

\* lines 155-160: the handler logs a warning and sets oom; the recovery
\* block is entered with last_step as the try block left it
Fail ==
    /\ outcome = "running" /\ nfaults < MaxFaults
    /\ \E kind \in ErrorKinds :
         /\ pc \in RaisingPcs(kind)
         /\ IF Caught(kind, pc)
            THEN /\ err' = [kind |-> kind, at |-> pc]
                 /\ nfaults' = nfaults + 1
                 /\ warnings' = warnings + 1
                 /\ oom' = TRUE
                 /\ stepOpt' = None
                 /\ stepSched' = None
                 /\ reset_opt' = FALSE
                 /\ new_lr' = <<>>
                 /\ pc' = "oom_save"
                 /\ lastOp' = "except"
                 /\ trace' = Append(trace, "except")
                 /\ UNCHANGED <<fetched, aux, cfg, outcome, last_step, start_step, batches,
                                objs, dir, hist>>
            ELSE Raise(kind)

----------------------------------------------------------------------------
(* The recovery block, lines 160-177 *)

\* line 162: tmp_step = int(1e8)
TmpStep == Sentinel

\* lines 162-163: saver.save(modeldir, step=tmp_step)
OomSave ==
    /\ outcome = "running" /\ pc = "oom_save" /\ oom
    /\ dir' = SaverSave(dir, saver, TmpStep)
    /\ pc' = "oom_model_cpu"
    /\ lastOp' = "oom_save"
    /\ trace' = Append(trace, "oom_save")
    /\ UNCHANGED <<fetched, aux, ctl, objs, locals, errs, hist>>

\* line 164: self.model.to('cpu')
OomModelCpu ==
    /\ outcome = "running" /\ pc = "oom_model_cpu"
    /\ model' = [model EXCEPT !.loc = "cpu"]
    /\ pc' = "oom_del_model"
    /\ lastOp' = "oom_model_cpu"
    /\ trace' = Append(trace, "oom_model_cpu")
    /\ UNCHANGED <<fetched, aux, ctl, opts, optimizer, lr_scheduler, eqrm_trainer, saver,
                   dir, locals, errs, hist>>

\* line 165: del self.model
OomDelModel ==
    /\ outcome = "running" /\ pc = "oom_del_model"
    /\ model' = [upd |-> NoStep, loc |-> "deleted"]
    /\ pc' = "oom_opt_cpu"
    /\ lastOp' = "oom_del_model"
    /\ trace' = Append(trace, "oom_del_model")
    /\ UNCHANGED <<fetched, aux, ctl, opts, optimizer, lr_scheduler, eqrm_trainer, saver,
                   dir, locals, errs, hist>>

\* faulty variant: _optimizer_to leaves the optimizer state on the device
OomOptCpuNoMove ==
    /\ outcome = "running" /\ pc = "oom_opt_cpu"
    /\ pc' = "oom_del_opt"
    /\ lastOp' = "oom_opt_cpu"
    /\ trace' = Append(trace, "oom_opt_cpu")
    /\ UNCHANGED <<fetched, aux, ctl, objs, dir, locals, errs, hist>>

\* line 166: _optimizer_to(optimizer, 'cpu')
OomOptCpu ==
    /\ outcome = "running" /\ pc = "oom_opt_cpu"
    /\ opts' = [opts EXCEPT ![optimizer].loc = "cpu"]
    /\ pc' = "oom_del_opt"
    /\ lastOp' = "oom_opt_cpu"
    /\ trace' = Append(trace, "oom_opt_cpu")
    /\ UNCHANGED <<fetched, aux, ctl, model, optimizer, lr_scheduler, eqrm_trainer, saver,
                   dir, locals, errs, hist>>

\* line 167: del optimizer, lr_scheduler
OomDelOpt ==
    /\ outcome = "running" /\ pc = "oom_del_opt"
    /\ optimizer' = None
    /\ lr_scheduler' = None
    /\ pc' = "oom_gc"
    /\ lastOp' = "oom_del_opt"
    /\ trace' = Append(trace, "oom_del_opt")
    /\ UNCHANGED <<fetched, aux, ctl, model, opts, eqrm_trainer, saver, dir, locals, errs,
                   hist>>

\* lines 168-169: torch.cuda.empty_cache(); gc.collect()
OomGc ==
    /\ outcome = "running" /\ pc = "oom_gc"
    /\ pc' = "oom_load_model"
    /\ lastOp' = "oom_gc"
    /\ trace' = Append(trace, "oom_gc")
    /\ UNCHANGED <<fetched, aux, ctl, objs, dir, locals, errs, hist>>

\* line 172: self.load_model() builds the model anew on the device
OomLoadModel ==
    /\ outcome = "running" /\ pc = "oom_load_model"
    /\ model' = [upd |-> 0, loc |-> "device"]
    /\ pc' = "oom_load_optimizer"
    /\ lastOp' = "oom_load_model"
    /\ trace' = Append(trace, "oom_load_model")
    /\ UNCHANGED <<fetched, aux, ctl, opts, optimizer, lr_scheduler, eqrm_trainer, saver,
                   dir, locals, errs, hist>>

\* line 173: optimizer, lr_scheduler, eqrm_trainer = self.load_optimizer(config)
OomLoadOptimizer ==
    /\ outcome = "running" /\ pc = "oom_load_optimizer"
    /\ IF PartitionOK(cfg)
       THEN /\ opts' = Append(opts, LoadedOptimizer(cfg))
            /\ optimizer' = Len(opts) + 1
            /\ lr_scheduler' = Len(opts) + 1
            /\ eqrm_trainer' = FreshEngine
            /\ pc' = "oom_load_saver"
            /\ lastOp' = "oom_load_optimizer"
            /\ trace' = Append(trace, "oom_load_optimizer")
            /\ UNCHANGED <<fetched, aux, ctl, model, saver, dir, locals, errs, hist>>
       ELSE Raise("AssertionError")

\* line 174: the saver is rebuilt without the risk engine
RecoverySaver(opt) == [opt |-> opt, eqrm |-> FALSE]

\* line 174: saver, _ = ...: the step the restore returns is dropped
\* faulty variant: the step of the reloaded checkpoint becomes last_step
StepAfterRecoveryRestored(s, restored) == restored

StepAfterRecovery(s, restored) == s

\* line 174: saver, _ = self.load_saver(config, modeldir, optimizer) restores
\* the latest checkpoint, which is the emergency one
OomLoadSaver ==
    /\ outcome = "running" /\ pc = "oom_load_saver"
    /\ saver' = RecoverySaver(optimizer)
    /\ model' = RestoredModel(dir, model)
    /\ opts' = RestoredOpts(dir, opts, optimizer)
    /\ eqrm_trainer' = IF dir = {} THEN eqrm_trainer
                       ELSE RestoredEngine(saver', Latest(dir), eqrm_trainer)
    /\ last_step' = StepAfterRecovery(last_step, RestoredStep(dir))
    /\ pc' = "oom_unlink"
    /\ lastOp' = "oom_load_saver"
    /\ trace' = Append(trace, "oom_load_saver")
    /\ UNCHANGED <<fetched, aux, cfg, outcome, start_step, oom, batches, optimizer,
                   lr_scheduler, dir, locals, errs, hist>>

\* faulty variant: the path is built from last_step instead of tmp_step
UnlinkPathOfLastStep == CkptName(last_step)

\* line 177: the path unlinked is the emergency checkpoint's
UnlinkPath == CkptName(TmpStep)

\* line 177: os.unlink(os.path.join(modeldir, f"model_checkpoint-{tmp_step}"))
OomUnlink ==
    /\ outcome = "running" /\ pc = "oom_unlink"
    /\ dir' = Unlink(dir, UnlinkPath)
    /\ pc' = "loop_test"
    /\ lastOp' = "oom_unlink"
    /\ trace' = Append(trace, "oom_unlink")
    /\ UNCHANGED <<fetched, aux, ctl, objs, locals, errs, hist>>

----------------------------------------------------------------------------

Next ==
    \/ LoadOptimizer \/ LoadSaver \/ LoadData
    \/ LoopTest \/ EvalModel
    \/ StepFetch \/ StepEqrm \/ StepClip \/ StepReset \/ StepBackward
    \/ StepOptimizerStep \/ StepUpdateLr \/ StepReport
    \/ Incr \/ SaveState
    \/ Fail
    \/ OomSave \/ OomModelCpu \/ OomDelModel \/ OomOptCpu \/ OomDelOpt
    \/ OomGc \/ OomLoadModel \/ OomLoadOptimizer \/ OomLoadSaver \/ OomUnlink
    \/ FinalSave

Spec == Init /\ [][Next]_vars

----------------------------------------------------------------------------
(* Helpers of the properties *)

StepPcs == {"step_fetch", "step_eqrm", "step_clip", "step_reset",
            "step_backward", "step_optimizer_step", "step_update_lr",
            "step_report"}

\* the emergency checkpoint files in the directory
SentinelFiles == {f \in dir : f.step = Sentinel}

\* the checkpoint files of real training steps
RealFiles == {f \in dir : f.step # Sentinel}

\* how many optimizer updates were applied for step index s
UpdatesOf(s) == Cardinality({i \in DOMAIN updLog : updLog[i].step = s})

\* how many save_state checkpoints were written at step s
SavesOf(s) == Cardinality({i \in DOMAIN saveLog : saveLog[i] = s})

----------------------------------------------------------------------------
(* C1 *)

\* C1 (as claimed): whenever a RuntimeError of the try block has been caught,
\* all through the recovery block and when it has finished, last_step is the
\* value it had when the iteration began, so the same step index is retried.
C1_StepNotAdvanced ==
    (pc \in RecoveryPcs \/ lastOp = "oom_unlink") => last_step = iter_step

----------------------------------------------------------------------------
(* C2 *)

\* C2 (as claimed): no optimizer update is performed by an optimizer that a
\* reset has replaced, and once step has returned the orchestrator's active
\* optimizer and scheduler are never a pair that a reset has replaced.
C2_RebuiltPairIsActive ==
    /\ lastOp = "step_optimizer_step" => stepOpt \notin preReset
    /\ pc \in {"incr", "save_state", "loop_test", "eval_model", "final_save",
               "done"} =>
          optimizer \notin preReset /\ lr_scheduler \notin preReset

----------------------------------------------------------------------------
(* C3 *)

\* C3 (as claimed): in one run of train reset_flag is returned true at most
\* once, only on the call that takes the engine's counter to burnin_iters + 1,
\* and once the engine has been ROBUST it is never in BURNIN again; a run
\* from step 0 that returns after more than burnin_iters steps has had
\* exactly one reset.
C3_SingleTransition ==
    /\ nResets <= 1
    /\ reset_opt => eqrm_trainer.counter = cfg.burnin_iters + 1
    /\ everRobust => eqrm_trainer.phase = "ROBUST"
    /\ (outcome = "returned" /\ start_step = 0
            /\ cfg.max_steps > cfg.burnin_iters) => nResets = 1

----------------------------------------------------------------------------
(* C4 *)

\* C4 (as claimed): once last_step is bound, every checkpoint file in the
\* directory has a step index <= last_step, in every state of train.
C4_AllFilesBelowLastStep ==
    last_step # NoStep => \A f \in dir : f.step <= last_step

\* C4 (amended): once last_step is bound, every checkpoint file other than
\* the emergency checkpoint of the sentinel step has a step index <= last_step.
C4_RealFilesBelowLastStep ==
    last_step # NoStep => \A f \in RealFiles : f.step <= last_step

\* C4 witness: in the middle of a recovery the emergency checkpoint lies next
\* to the checkpoint of a real step
C4_Witness ==
    /\ pc = "oom_load_saver"
    /\ SentinelFiles # {}
    /\ \E f \in RealFiles : f.step = last_step /\ last_step > start_step

----------------------------------------------------------------------------
(* C5 *)

\* C5 (as claimed): no step index gets two optimizer updates and no step
\* value two save_state checkpoints; when train returns, every step index s
\* from the start step to max_steps - 1 has had exactly one update and
\* exactly one save_state checkpoint at s + 1.
C5_EachStepOnce ==
    /\ \A i, j \in DOMAIN updLog :
          i # j => updLog[i].step # updLog[j].step
    /\ \A i, j \in DOMAIN saveLog : i # j => saveLog[i] # saveLog[j]
    /\ outcome = "returned" =>
          \A s \in start_step..(cfg.max_steps - 1) :
              UpdatesOf(s) = 1 /\ SavesOf(s + 1) = 1

----------------------------------------------------------------------------
(* C6 *)

----------------------------------------------------------------------------
(* C7 *)

\* the state a new run of train has after its startup on a directory whose
\* latest checkpoint is f (lines 141-142)
Resumed(f) ==
    [last_step |-> StartStep(f.step),
     model |-> f.model,
     opt |-> f.opt,
     eqrm |-> RestoredEngine([opt |-> None, eqrm |-> TRUE], f, FreshEngine)]

\* the state of the run itself
Live ==
    [last_step |-> last_step,
     model |-> model.upd,
     opt |-> opts[optimizer].upd,
     eqrm |-> eqrm_trainer]

\* C7 (as claimed): the checkpoint save_state has just written at last_step
\* holds the risk engine's state, and a run started from it is in the state
\* of the run that wrote it: same step, weights, optimizer state, engine
\* phase and counter.
C7_CheckpointResumes ==
    lastOp = "save_state" =>
        \A f \in dir : f.step = last_step =>
            f.eqrm # NoEngine /\ Resumed(f) = Live

----------------------------------------------------------------------------
(* C8 *)

\* the step values that have a checkpoint file
FileSteps == {f.step : f \in dir}

\* C8 (as claimed): in a run from an empty directory that met no error, the
\* checkpoints are those of the steps 1..last_step whenever the loop tests its
\* condition, and those of 1..max_steps, one file each, when train has returned.
C8_CheckpointsOneToMax ==
    (start_step = 0 /\ nfaults = 0) =>
        /\ pc = "loop_test" => FileSteps = 1..last_step
        /\ outcome = "returned" =>
              /\ FileSteps = 1..cfg.max_steps
              /\ Cardinality(dir) = cfg.max_steps

\* C8 (amended): the same for max_steps >= 1; with max_steps = 0 the loop
\* body never runs and the final save leaves the one checkpoint of step 0.
C8_CheckpointsOneToMaxOrZero ==
    (start_step = 0 /\ nfaults = 0) =>
        /\ (pc = "loop_test" /\ last_step >= 1) => FileSteps = 1..last_step
        /\ outcome = "returned" =>
              IF cfg.max_steps >= 1
              THEN /\ FileSteps = 1..cfg.max_steps
                   /\ Cardinality(dir) = cfg.max_steps
              ELSE FileSteps = {0} /\ Cardinality(dir) = 1

\* C8 witness: a run from an empty directory without error has returned after
\* MaxSteps steps and a reset
C8_Witness ==
    /\ outcome = "returned" /\ start_step = 0 /\ nfaults = 0
    /\ cfg.max_steps = MaxSteps /\ nResets = 1
    /\ Len(saveLog) = MaxSteps

----------------------------------------------------------------------------
(* C9 *)

\* what C9 says of the loop's exit, of the counter and of the final save:
\* the loop is left only with last_step >= max_steps; last_step is the start
\* step plus the number of calls of step that returned (one less between the
\* return of step and the increment); when train has returned, last_step is
\* max_steps if the start step was not above it, and the last statement
\* executed was the save of the checkpoint of last_step by the current saver
C9_ExitAndFinalSave ==
    /\ (pc = "final_save" \/ outcome = "returned") =>
          last_step >= cfg.max_steps
    /\ last_step # NoStep =>
          last_step = start_step + stepsDone - (IF pc = "incr" THEN 1 ELSE 0)
    /\ outcome = "returned" =>
          /\ start_step <= cfg.max_steps => last_step = cfg.max_steps
          /\ start_step > cfg.max_steps => last_step = start_step
          /\ lastOp = "final_save"
          /\ CkptOf(saver, last_step) \in dir

\* C9 (as claimed): no evaluation, step or save_state is executed with
\* last_step >= max_steps, and the loop exit, the counter and the final save
\* are as above.
C9_NothingAtMaxSteps ==
    /\ pc \in ({"eval_model", "incr", "save_state"} \cup StepPcs) =>
          last_step < cfg.max_steps
    /\ C9_ExitAndFinalSave

\* C9 (amended): no evaluation and no step is executed with
\* last_step >= max_steps; save_state is executed with the incremented
\* last_step, which is <= max_steps and equals max_steps in the last
\* iteration; the loop exit, the counter and the final save are as above.
C9_NothingPastMaxSteps ==
    /\ pc \in ({"eval_model", "incr"} \cup StepPcs) =>
          last_step < cfg.max_steps
    /\ pc = "save_state" =>
          last_step <= cfg.max_steps /\ last_step = iter_step + 1
    /\ C9_ExitAndFinalSave

\* C9 witness: train has returned without running the loop body, the start
\* step being max_steps already, and the final save was performed
C9_Witness ==
    /\ outcome = "returned"
    /\ stepsDone = 0 /\ evalLog = <<>>
    /\ start_step = cfg.max_steps /\ cfg.max_steps > 0
    /\ lastOp = "final_save"

----------------------------------------------------------------------------
(* C10 *)

\* C10: whenever an error is raised, if it is a RuntimeError raised by a
\* statement of the try block then train keeps running, one more warning is
\* logged and the recovery block is entered; otherwise (another kind of
\* error, or any error raised in the startup or in the recovery block) the
\* error leaves train with no warning logged; and once an error has left
\* train nothing more is executed.
C10_OnlyTryRuntimeErrorsCaught ==
    /\ [][nfaults' > nfaults =>
            IF err'.kind = "RuntimeError" /\ err'.at \in TryPcs
            THEN /\ outcome' = "running"
                 /\ warnings' = warnings + 1
                 /\ pc' = "oom_save"
            ELSE /\ outcome' = "raised"
                 /\ warnings' = warnings]_vars
    /\ [][outcome = "raised" => UNCHANGED vars]_vars

\* C10 witness: a RuntimeError of the try block was caught and logged, and
\* an error raised later inside the recovery block has left train
C10_Witness ==
    /\ outcome = "raised"
    /\ warnings > 0
    /\ err.at \in RecoveryPcs

----------------------------------------------------------------------------
(* C11 *)

\* the statements of one loop iteration that meets no error, in program order
IterationOrder ==
    <<"loop_test", "eval_model", "step_fetch", "step_eqrm", "step_clip",
      "step_reset", "step_backward", "step_optimizer_step", "step_update_lr",
      "step_report", "incr", "save_state">>

\* the statement was executed since the last loop test
Executed(a) == \E i \in DOMAIN trace : trace[i] = a

\* since the last loop test a was executed, and b only after it
Before(a, b) ==
    \E i \in DOMAIN trace :
        /\ trace[i] = a
        /\ \A j \in DOMAIN trace : trace[j] = b => i < j

\* how many evaluations were run for step index s
EvalsOf(s) == Cardinality({i \in DOMAIN evalLog : evalLog[i] = s})

\* C11: when the optimizer update of step index s has just been applied, the
\* evaluation of s was run before it in the same iteration; when the counter
\* has just been incremented, step had returned (after optimizer.step and the
\* scheduler query) and the counter is one above the iteration's index; when
\* save_state has just written, the iteration ran all its statements in
\* program order and the file is the one of the completed index plus one; and
\* every checkpoint of a real step value above the start step is the
\* checkpoint of an index whose optimizer update was applied.
C11_OrderInIteration ==
    /\ lastOp = "step_optimizer_step" =>
          /\ Before("eval_model", "step_optimizer_step")
          /\ evalLog[Len(evalLog)] = last_step
          /\ updLog[Len(updLog)].step = last_step
    /\ \A s \in 0..last_step : EvalsOf(s) >= UpdatesOf(s)
    /\ lastOp = "incr" =>
          /\ Before("step_optimizer_step", "step_update_lr")
          /\ Before("step_update_lr", "step_report")
          /\ Before("step_report", "incr")
          /\ last_step = iter_step + 1
    /\ lastOp = "save_state" =>
          /\ trace = IterationOrder
          /\ updLog[Len(updLog)].step = last_step - 1
          /\ \E f \in dir : f.step = last_step /\ f.model = model.upd
    /\ \A f \in RealFiles :
          (start_step # NoStep /\ f.step > start_step) =>
              UpdatesOf(f.step - 1) >= 1 /\ EvalsOf(f.step - 1) >= 1

\* C11 witness: the second checkpoint of a run has just been written, after
\* an iteration that was retried
C11_Witness ==
    /\ lastOp = "save_state"
    /\ warnings > 0
    /\ Len(saveLog) = 2
    /\ Cardinality(RealFiles) >= 2

----------------------------------------------------------------------------
(* C12 *)

\* a construction is guarded by the partition check when it is the one of
\* load_optimizer, which runs the assertions of lines 32-33 first; the
\* construction of lines 94-100 in step has no assertion before it
Guarded(o) == o.site = "load_optimizer"

\* the encoder subset is not empty and the two subsets add up
ValidPartition(p) == p.n_bert > 0 /\ p.n_bert + p.n_non_bert = p.n_all

\* in dual-optimizer mode a model without a valid partition builds nothing:
\* the first load_optimizer raises AssertionError, which leaves train without
\* a warning, a recovery or a retry
FatalOnBadPartition ==
    (cfg.use_bert_training /\ ~ValidPartition(cfg.params)) =>
        /\ opts = <<>>
        /\ warnings = 0
        /\ lastOp = "init"
        /\ outcome = "raised" =>
              err = [kind |-> "AssertionError", at |-> "load_optimizer"]

\* C12 (as claimed): in dual-optimizer mode every optimizer ever constructed
\* (startup, reset inside step, after an OOM reload) was constructed behind
\* the partition check, a bad partition is fatal, and no optimizer is built
\* from an empty encoder subset.
C12_EveryBuildGuarded ==
    /\ cfg.use_bert_training => \A i \in DOMAIN opts : Guarded(opts[i])
    /\ (cfg.use_bert_training /\ opts # <<>>) => ValidPartition(cfg.params)
    /\ FatalOnBadPartition

\* C12 (amended): in dual-optimizer mode the constructions of load_optimizer
\* (the optimizer train holds at startup and after an OOM reload) are behind
\* the partition check, and a bad partition is fatal there; the construction
\* on a reset inside step has no check of its own, but is reached only for a
\* model load_optimizer has checked, so no optimizer is ever built from an
\* empty encoder subset or from subsets that do not add up.
C12_LoadOptimizerBuildsGuarded ==
    /\ (cfg.use_bert_training /\ optimizer # None) => Guarded(opts[optimizer])
    /\ \A i \in DOMAIN opts :
          ~Guarded(opts[i]) => i # optimizer /\ i - 1 \in preReset
    /\ (cfg.use_bert_training /\ opts # <<>>) => ValidPartition(cfg.params)
    /\ FatalOnBadPartition

\* C12 witness: in dual-optimizer mode, an optimizer was built at startup,
\* one after an OOM reload and one by a reset inside step
C12_Witness ==
    /\ cfg.use_bert_training
    /\ warnings > 0
    /\ \E i \in DOMAIN opts : ~Guarded(opts[i])
    /\ \E i, j \in DOMAIN opts : i # j /\ Guarded(opts[i]) /\ Guarded(opts[j])

----------------------------------------------------------------------------
(* C13 *)

\* the operations of step in the order of the source: the clipping of lines
\* 85-89 comes before the rebuild of lines 92-121
StepOrder ==
    <<"step_fetch", "step_eqrm", "step_clip", "step_reset", "step_backward",
      "step_optimizer_step", "step_update_lr">>

\* the operations of step in the order C13 states: rebuild, then clipping
ClaimedStepOrder ==
    <<"step_fetch", "step_eqrm", "step_reset", "step_clip", "step_backward",
      "step_optimizer_step", "step_update_lr">>

\* the operations among ops this execution of step performs: the rebuild
\* only on reset_opt, the clipping only when it is configured
Performed(ops) ==
    LET Keep(x) == /\ x \in StepPcs
                   /\ x = "step_reset" => reset_opt
                   /\ x = "step_clip" => ClipApplies(cfg)
    IN  SelectSeq(ops, Keep)

\* C13 (as claimed): when step has queried the scheduler, the operations it
\* performed are, in this order: fetch, eqrm_trainer.train, rebuild (on
\* reset), clipping (if configured), zero_grad and backward, optimizer.step,
\* update_lr; and on a reset step the clipping was applied to the groups of
\* the rebuilt optimizer.
C13_RebuildThenClip ==
    lastOp = "step_update_lr" =>
        /\ Performed(trace) = Performed(ClaimedStepOrder)
        /\ (reset_opt /\ ClipApplies(cfg)) =>
              clipLog[Len(clipLog)].opt = stepOpt

\* C13 (amended): the operations are, in this order: fetch,
\* eqrm_trainer.train, clipping (if configured), rebuild (on reset), zero_grad
\* and backward, optimizer.step, update_lr; the clipping is applied, before
\* any rebuild, to the groups of the optimizer passed to step, which on a
\* reset step is the optimizer the rebuild replaces, while the update and the
\* scheduler query use the rebuilt pair.
C13_ClipThenRebuild ==
    lastOp = "step_update_lr" =>
        /\ Performed(trace) = Performed(StepOrder)
        /\ ClipApplies(cfg) =>
              clipLog[Len(clipLog)] =
                  [step |-> last_step, opt |-> optimizer,
                   groups |-> opts[optimizer].groups]
        /\ updLog[Len(updLog)] = [step |-> last_step, opt |-> stepOpt]
        /\ reset_opt =>
              /\ stepOpt # optimizer /\ stepSched = stepOpt
              /\ optimizer \in preReset

\* C13 witness: a reset step with clipping configured has queried the
\* scheduler
C13_Witness ==
    /\ lastOp = "step_update_lr"
    /\ reset_opt
    /\ ClipApplies(cfg)
    /\ clipLog # <<>>

----------------------------------------------------------------------------
(* C14 *)

\* the statements of the recovery block in the order of the source
RecoveryOrder ==
    <<"oom_save", "oom_model_cpu", "oom_del_model", "oom_opt_cpu",
      "oom_del_opt", "oom_gc", "oom_load_model", "oom_load_optimizer",
      "oom_load_saver", "oom_unlink">>

\* the item of C14's list a statement of the recovery block belongs to
ClaimedItem(op) ==
    CASE op = "oom_save" -> 1
      [] op \in {"oom_model_cpu", "oom_opt_cpu"} -> 2
      [] op \in {"oom_del_model", "oom_del_opt"} -> 3
      [] op = "oom_gc" -> 4
      [] op = "oom_load_model" -> 5
      [] op \in {"oom_load_optimizer", "oom_load_saver"} -> 6
      [] op = "oom_unlink" -> 7

\* the statements of the recovery block executed since the last loop test
RecoveryTrace ==
    LET InBlock(x) == x \in RecoveryPcs IN SelectSeq(trace, InBlock)

\* the emergency checkpoint is unlinked only after the restore from it, and
\* nothing is released before its state was moved off the device
RestoreBeforeUnlinkMoveBeforeRelease ==
    /\ lastOp = "oom_del_model" => Before("oom_model_cpu", "oom_del_model")
    /\ lastOp = "oom_del_opt" => opts[saver.opt].loc = "cpu"
    /\ pc = "oom_unlink" =>
          /\ model.loc = "device" /\ optimizer # None
          /\ \A f \in SentinelFiles :
                model.upd = f.model /\ opts[optimizer].upd = f.opt
    /\ lastOp = "oom_unlink" =>
          Before("oom_load_saver", "oom_unlink") /\ SentinelFiles = {}

\* C14 (as claimed): the statements of the recovery block run item by item
\* in the order of the list (1) .. (7), every move off the device before
\* every release, and the two orderings above hold.
C14_ItemsInListOrder ==
    /\ \A i, j \in DOMAIN RecoveryTrace :
          i < j => ClaimedItem(RecoveryTrace[i]) <= ClaimedItem(RecoveryTrace[j])
    /\ RestoreBeforeUnlinkMoveBeforeRelease

\* C14 (amended): the recovery block runs: emergency save, model to the cpu,
\* release of the model, optimizer state to the cpu, release of optimizer and
\* scheduler, device memory reclamation and garbage collection, reload of the
\* model, rebuild of optimizer, scheduler and risk engine, restore from the
\* emergency checkpoint, unlink; the model is released before the optimizer
\* state is moved, and the two orderings above hold.
C14_SourceOrder ==
    /\ Len(RecoveryTrace) <= Len(RecoveryOrder)
    /\ \A i \in DOMAIN RecoveryTrace : RecoveryTrace[i] = RecoveryOrder[i]
    /\ lastOp = "oom_unlink" => RecoveryTrace = RecoveryOrder
    /\ RestoreBeforeUnlinkMoveBeforeRelease

\* C14 witness: a recovery that restored updated weights has just unlinked
\* its emergency checkpoint
C14_Witness ==
    /\ lastOp = "oom_unlink"
    /\ model.upd > 0
    /\ opts[optimizer].upd > 0

----------------------------------------------------------------------------
(* C15 *)

\* the statements of train: every action but the raising of an error
Progress ==
    \/ LoadOptimizer \/ LoadSaver \/ LoadData
    \/ LoopTest \/ EvalModel
    \/ StepFetch \/ StepEqrm \/ StepClip \/ StepReset \/ StepBackward
    \/ StepOptimizerStep \/ StepUpdateLr \/ StepReport
    \/ Incr \/ SaveState
    \/ OomSave \/ OomModelCpu \/ OomDelModel \/ OomOptCpu \/ OomDelOpt
    \/ OomGc \/ OomLoadModel \/ OomLoadOptimizer \/ OomLoadSaver \/ OomUnlink
    \/ FinalSave

\* train is one sequential thread: while it has a statement to execute, it
\* executes it; errors are raised at most MaxFaults times
FairSpec == Spec /\ WF_vars(Progress)

\* with finitely many errors, train ends: it returns or an error leaves it
C15_Terminates == <>(outcome # "running")

\* the iterations whose try block ran to its end: save_state returned
SuccessfulIterations == Len(saveLog)

\* C15 (as claimed, for a start step <= max_steps): when train has returned,
\* after any number of caught RuntimeErrors, last_step is max_steps and
\* exactly max_steps - start iterations were successful.
C15_ReturnsAfterExactIterations ==
    (outcome = "returned" /\ start_step <= cfg.max_steps) =>
        /\ last_step = cfg.max_steps
        /\ SuccessfulIterations = cfg.max_steps - start_step


-----------------------------------------------------------------------------
\* C16: the learning rates step reports

\* the optimizer whose step() performed the update of the step now reported
UpdatingOptimizer == updLog[Len(updLog)].opt

\* what the scheduler of this step returned for this step
Returned == UpdateLr(cfg.lr_scheduler, stepSched, last_step)

\* C16: when update_lr(last_step) returns None (the no-op scheduler does for
\* every step) the rates step reports are the rates of the param groups of the
\* optimizer that performed this step's update, one per group in group
\* order; a returned value is reported unchanged.
C16_ReportedRates ==
    pc = "step_report" =>
        /\ cfg.lr_scheduler = "noop" => Returned = <<>>
        /\ Returned = <<>> =>
              /\ updLog # <<>>
              /\ updLog[Len(updLog)].step = last_step
              /\ Len(new_lr) = opts[UpdatingOptimizer].groups
              /\ \A i \in DOMAIN new_lr :
                    new_lr[i] = [opt |-> UpdatingOptimizer, group |-> i]
        /\ Returned # <<>> => new_lr = Returned

\* the rates are read, on a step that rebuilt the optimizer, from the two
\* groups of the rebuilt one
C16_Witness ==
    /\ pc = "step_report"
    /\ cfg.lr_scheduler = "noop"
    /\ reset_opt
    /\ stepOpt # optimizer
    /\ Len(new_lr) = 2
    /\ new_lr[2] = [opt |-> stepOpt, group |-> 2]


-----------------------------------------------------------------------------
\* C17: gradient clipping

\* the clipping statement of step has run to its end in this transition
ClipStatementRan == pc = "step_clip" /\ pc' = "step_reset"

\* one clip_grad_norm_ call for each param group of step's optimizer
ClippedEveryGroupOnce ==
    /\ clipLog' = Append(clipLog, [step |-> last_step, opt |-> stepOpt,
                                   groups |-> opts[stepOpt].groups])
    /\ opts[stepOpt].groups = 2

\* C17: clipping is applied if and only if clip_grad is set and
\* use_bert_training is on; when applied it is applied once to every param
\* group of the optimizer; in single-group mode nothing is ever clipped, also
\* with clip_grad set.
C17_ClipIffThresholdAndBert ==
    /\ [](~cfg.use_bert_training => clipLog = <<>>)
    /\ [](~cfg.clip_grad => clipLog = <<>>)
    /\ [][ /\ ClipStatementRan =>
                IF cfg.clip_grad /\ cfg.use_bert_training
                THEN ClippedEveryGroupOnce
                ELSE clipLog' = clipLog
           /\ ~ClipStatementRan => clipLog' = clipLog ]_vars

\* the second step of a run in dual-optimizer mode with a threshold has
\* clipped both groups
C17_Witness ==
    /\ lastOp = "step_clip"
    /\ cfg.clip_grad /\ cfg.use_bert_training
    /\ Len(clipLog) = 2
    /\ clipLog[2] = [step |-> last_step, opt |-> stepOpt, groups |-> 2]


-----------------------------------------------------------------------------
\* C18: the range of last_step

\* the start directory holds no sentinel file and max_steps is below the
\* sentinel: so in every start state of the model
C18_Precondition ==
    /\ cfg.max_steps < Sentinel
    /\ \A c \in StartDirs(cfg) : \A f \in c : f.step # Sentinel

\* last_step has been assigned (line 145 has run)
Started == start_step # NoStep

UpperEnd == IF start_step > cfg.max_steps THEN start_step ELSE cfg.max_steps

\* C18 (as claimed): once train has its start step, last_step is never the
\* sentinel and stays in [start, max_steps].
C18_WithinStartAndMax ==
    (C18_Precondition /\ Started) =>
        /\ last_step # Sentinel
        /\ start_step <= last_step
        /\ last_step <= cfg.max_steps

\* C18 (amended): once train has its start step, last_step is never the
\* sentinel, the step returned by the reload of the emergency checkpoint is
\* discarded, last_step never decreases, and it stays in
\* [start, max(start, max_steps)].
C18_WithinStartAndLaterOfStartMax ==
    /\ []((C18_Precondition /\ Started) =>
            /\ last_step # Sentinel
            /\ start_step <= last_step
            /\ last_step <= UpperEnd)
    /\ [][last_step' >= last_step]_vars
    /\ [][(pc = "oom_load_saver" /\ pc' = "oom_unlink") =>
            /\ RestoredStep(dir) = Sentinel
            /\ last_step' = last_step]_vars

\* the emergency checkpoint has been reloaded in the middle of a run and
\* last_step is still the step the failed iteration had
C18_Witness ==
    /\ lastOp = "oom_load_saver"
    /\ C18_Precondition
    /\ \E f \in dir : f.step = Sentinel
    /\ RestoredStep(dir) = Sentinel
    /\ start_step < last_step
    /\ last_step <= cfg.max_steps


-----------------------------------------------------------------------------
\* C19: the batches of the attempts of step

\* C19: every attempt of step that gets past the fetch consumes exactly one
\* batch; the recovery neither rebuilds nor rewinds the loader; the retry of
\* a failed step runs on the batch after the one the failed attempt consumed,
\* no batch is replayed, and the batches consumed are as many as the
\* attempts.
C19_OneFreshBatchPerAttempt ==
    /\ [](/\ Len(fetchLog) = batches
          /\ \A i \in DOMAIN fetchLog : fetchLog[i].batch = i
          /\ \A i, j \in DOMAIN fetchLog :
                (i < j /\ fetchLog[i].step = fetchLog[j].step) =>
                    fetchLog[j].batch > fetchLog[i].batch)
    /\ [][IF pc = "step_fetch" /\ pc' = "step_eqrm"
          THEN batches' = batches + 1
          ELSE batches' = batches]_vars

\* a step that failed is attempted again, on the next batch
C19_Witness ==
    /\ lastOp = "step_fetch"
    /\ nfaults >= 1
    /\ Len(fetchLog) >= 2
    /\ fetchLog[Len(fetchLog)].step = fetchLog[Len(fetchLog) - 1].step
    /\ fetchLog[Len(fetchLog)].batch = fetchLog[Len(fetchLog) - 1].batch + 1

====
